---- MODULE Spec2Model ----
(***************************************************************************)
(* Model of cortex_analyst_sis_demo_app.py: a Streamlit chat front-end.    *)
(*                                                                         *)
(* The script main() is executed from top to bottom on every script run.   *)
(* A run is started by the page load, by widget events of the user, or by  *)
(* st.rerun().  The variable pc is the position of the current run in      *)
(* main(); the session state (st.session_state) survives between runs.     *)
(* A run is executed without interruption (one thread of control); the     *)
(* two remote calls are the only places where a run waits, and they are    *)
(* modelled as separate positions: the request is in flight (pc = "call",   *)
(* "feedback_call"), then the response has arrived and the code after the  *)
(* call runs (pc = "merge", "feedback_merge").                             *)
(* A Python exception ends the run where it is raised and leaves the       *)
(* session state as it is at that moment.                                  *)
(*                                                                         *)
(* Not modelled: popover_open (written at line 522, never read) and the    *)
(* value of the selectbox (read only by get_analyst_response, which is     *)
(* never called).                                                          *)
(***************************************************************************)
EXTENDS Integers, Sequences, FiniteSets, TLC

VARIABLES
    messages,               \* st.session_state.messages
    active_suggestion,      \* st.session_state.active_suggestion
    warnings,               \* st.session_state.warnings
    form_submitted,         \* st.session_state.form_submitted
    fire_API_error_notify,  \* st.session_state["fire_API_error_notify"] (absent = FALSE)
    initialized,            \* "messages" in st.session_state
    pc,                     \* position of the script run
    run,                    \* widget triggers of the current script run
    prompt,                 \* argument of the pending process_user_input call
    feedback_body,          \* request body of the feedback call in flight
    resp,                   \* the response that arrived: status and parsed content
    ui,                     \* how far the last run got in building the page
    cycles_completed,       \* process_user_input calls that reached st.rerun() since the last reset
    cycles_raised,          \* process_user_input calls that ended in an exception since the last reset
    query_cache,            \* the memo of st.cache_data for get_query_exec_result: query -> returned tuple
    sql_calls,              \* per query, how often session.sql(query) was invoked (up to MaxSqlCalls)
    request,                \* the request of the remote call in flight: path and body
    chart                   \* the chart tab of one query result: its columns, widgets and last rendering

vars == <<messages, active_suggestion, warnings, form_submitted,
          fire_API_error_notify, initialized, pc, run, prompt,
          feedback_body, resp, ui, cycles_completed, cycles_raised,
          query_cache, sql_calls, request, chart>>

\* The variables of the chat application.
app_vars == <<messages, active_suggestion, warnings, form_submitted,
              fire_API_error_notify, initialized, pc, run, prompt,
              feedback_body, resp, ui, cycles_completed, cycles_raised,
              query_cache, sql_calls, request>>

-----------------------------------------------------------------------------
(* Bounds *)

\* The transcript is not extended beyond this many turns.
MaxMessages == 6

\* Invocations of session.sql are counted up to this number per statement.
MaxSqlCalls == 2

\* A query result has at most this many columns.
MaxColumns == 3

-----------------------------------------------------------------------------
(* Values *)

\* Python's None (also: no value).
None == "None"

\* Python truthiness of an optional string (line 467: if request_id).
Truthy(x) == x # None /\ x # ""

setup_message == "You are an expert Neo4j Graph Analytics for Snowflake SQL generator."

AutoQuestion == "What questions can I ask?"

\* What the user may type into st.chat_input.
TypedInputs == {"q1"}

RequestIds == {"r1", "r2"}

\* HTTP statuses answered by the graph-plan endpoint and the feedback endpoint.
GraphStatuses == {200, 399, 400, 500}

FeedbackStatuses == {200, 201, 302, 500}

\* Contents of the "message" of a success envelope.
TextContent == <<[type |-> "text", text |-> "hi"]>>

SuggestionsContent ==
    <<[type |-> "text", text |-> "hi"],
      [type |-> "suggestions", suggestions |-> <<"s1", "s2">>]>>

\* The SQL statements of the sql blocks.
Statements == {"SELECT 1"}

\* What get_query_exec_result returns when it executes a statement: the
\* tuple (df, None), or (None, str(e)) after a SnowparkSQLException.
QueryOutcomes ==
    {[df |-> "df", err_msg |-> None], [df |-> None, err_msg |-> "SQL compilation error"]}

SqlContent ==
    <<[type |-> "sql", statement |-> "SELECT 1",
       confidence |-> [verified_query_used |-> None]]>>

SqlNoConfidenceContent == <<[type |-> "sql", statement |-> "SELECT 1"]>>

Contents == {TextContent, SuggestionsContent, SqlContent, SqlNoConfidenceContent}

WarningLists == {<<[message |-> "a"]>>}

\* Success envelopes: {message: {content}, request_id?, warnings?}, and one
\* without "message".
SuccessEnvelopes ==
    {[message |-> [content |-> c], request_id |-> r] :
        c \in Contents, r \in RequestIds}
    \cup {[message |-> [content |-> TextContent], request_id |-> r, warnings |-> w] :
        r \in RequestIds, w \in WarningLists}
    \cup {[message |-> [content |-> c]] : c \in {TextContent}}
    \cup {[request_id |-> r] : r \in {"r1"}}

\* Failure envelopes: {request_id?, error_code, message}.
FailureEnvelopes ==
    {[request_id |-> r, error_code |-> "E1", message |-> "bad"] : r \in RequestIds}
    \cup {[error_code |-> "E1", message |-> "bad"]}

\* The body the graph-plan endpoint sends with a status.
GraphEnvelopes(status) ==
    IF status < 400 THEN SuccessEnvelopes ELSE FailureEnvelopes

\* The body the feedback endpoint sends for a submission about request_id:
\* {request_id, error_code, message} (it is read for statuses other than 200).
FeedbackEnvelopes(request_id) ==
    {[request_id |-> request_id, error_code |-> "E1", message |-> "bad"]}

FeedbackMessages == {"note"}

Last(s) == s[Len(s)]

\* sub occurs in the string s.
Contains(s, sub) ==
    \E i \in 1..(Len(s) - Len(sub) + 1) : SubSeq(s, i, i + Len(sub) - 1) = sub

EmptyMap == [r \in {} |-> [error |-> None]]

NoTriggers ==
    [model_changed |-> FALSE, clear |-> FALSE, click |-> {}, fb |-> {}, typed |-> {}]

NoBody == [request_id |-> None, positive |-> FALSE, feedback_message |-> ""]

NoResponse == [status |-> 0, content |-> [request_id |-> None]]

\* The paths of the Snowflake REST API (lines 26-28).
API_ENDPOINT == "/api/v2/cortex/analyst/message"

FEEDBACK_API_ENDPOINT == "/api/v2/cortex/analyst/feedback"

API_COMPLETE_ENDPOINT == "/api/v2/cortex/inference:complete"

\* No remote call is in flight.
NoRequest == [path |-> None, body |-> NoBody]

EmptyCache == [q \in {} |-> [df |-> None, err_msg |-> None]]

\* Column names of query results; df.columns may hold a name twice.
ColumnNames == {"a", "b", "c"}

RECURSIVE SeqsUpTo(_, _)
SeqsUpTo(S, n) ==
    IF n = 0 THEN {<<>>}
    ELSE LET shorter == SeqsUpTo(S, n - 1)
         IN  shorter \cup {Append(s, x) : s \in shorter, x \in S}

ColumnLists == SeqsUpTo(ColumnNames, MaxColumns)

\* No chart tab.
NoChart ==
    [columns |-> <<>>, state |-> "none", offered |-> FALSE,
     x_widget |-> None, y_widget |-> None,
     x_options |-> {}, y_options |-> {}, x_col |-> None, y_col |-> None]

-----------------------------------------------------------------------------
(* reset_session_state *)

\* reset_session_state without the assignment of lines 107-109.
reset_session_state_keeps_feedback ==
    [messages |-> <<>>, active_suggestion |-> None, warnings |-> <<>>,
     form_submitted |-> form_submitted]

\* The four session-state entries assigned by reset_session_state.
reset_session_state ==
    [messages |-> <<>>, active_suggestion |-> None, warnings |-> <<>>,
     form_submitted |-> EmptyMap]

\* The same four entries as they are now.
session_state ==
    [messages |-> messages, active_suggestion |-> active_suggestion,
     warnings |-> warnings, form_submitted |-> form_submitted]

-----------------------------------------------------------------------------
(* Remote client *)

\* The cycle calling the endpoint of get_analyst_response (line 312).
GraphPlanPath_analyst_message == API_ENDPOINT

\* The path create_relevant_graph_tables posts to (line 259).
GraphPlanPath == API_COMPLETE_ENDPOINT

\* create_relevant_graph_tables building the request from the transcript
\* without its last turn.
GraphPlanRequest_without_last(msgs) ==
    [path |-> GraphPlanPath,
     body |-> [messages |-> SubSeq(msgs, 1, Len(msgs) - 1), model |-> "mistral-large2"]]

\* The request create_relevant_graph_tables(msgs) sends (lines 250-265).
GraphPlanRequest(msgs) ==
    [path |-> GraphPlanPath,
     body |-> [messages |-> msgs, model |-> "mistral-large2"]]

\* The request submit_feedback sends (lines 536-549).
FeedbackRequest(request_body) ==
    [path |-> FEEDBACK_API_ENDPOINT, body |-> request_body]

\* The error string of create_relevant_graph_tables.
GraphErrorMsg(status, parsed_content) ==
    "A model creation error has occurred; response code: " \o ToString(status)
    \o "; request-id: " \o parsed_content.request_id
    \o "; error code: " \o parsed_content.error_code
    \o "; Message: " \o parsed_content.message

\* create_relevant_graph_tables with the success test status == 200.
create_relevant_graph_tables_only_200(status, parsed_content) ==
    IF status = 200
    THEN [raised |-> FALSE, error_msg |-> None]
    ELSE IF {"request_id", "error_code", "message"} \subseteq DOMAIN parsed_content
         THEN [raised |-> FALSE, error_msg |-> GraphErrorMsg(status, parsed_content)]
         ELSE [raised |-> TRUE, error_msg |-> None]

\* create_relevant_graph_tables after the response arrived: the error
\* message it returns, or raised = TRUE when a field read by the f-string
\* is missing (KeyError).
create_relevant_graph_tables(status, parsed_content) ==
    IF status < 400
    THEN [raised |-> FALSE, error_msg |-> None]
    ELSE IF {"request_id", "error_code", "message"} \subseteq DOMAIN parsed_content
         THEN [raised |-> FALSE, error_msg |-> GraphErrorMsg(status, parsed_content)]
         ELSE [raised |-> TRUE, error_msg |-> None]

\* Building analyst_message1 raises KeyError when a key it reads is missing.
AnalystMessageRaises(response1, error_msg1) ==
    \/ error_msg1 = None /\ "message" \notin DOMAIN response1
    \/ "request_id" \notin DOMAIN response1

\* analyst_message1 showing the envelope's message instead of the error string.
analyst_message1_raw_message(response1, error_msg1) ==
    [role |-> "analyst",
     content |-> IF error_msg1 = None
                 THEN response1.message.content
                 ELSE <<[type |-> "text", text |-> response1.message]>>,
     request_id |-> response1.request_id]

analyst_message1(response1, error_msg1) ==
    [role |-> "analyst",
     content |-> IF error_msg1 = None
                 THEN response1.message.content
                 ELSE <<[type |-> "text", text |-> error_msg1]>>,
     request_id |-> response1.request_id]

\* The value process_user_input assigns to fire_API_error_notify.
ErrorNotifyAfter(error_msg1) ==
    IF error_msg1 # None THEN TRUE ELSE fire_API_error_notify

\* The error string of submit_feedback.
FeedbackErrorMsg(status, parsed_content) ==
    "An Analyst API error has occurred; response code: " \o ToString(status)
    \o "; request-id: " \o parsed_content.request_id
    \o "; error code: " \o parsed_content.error_code
    \o "; Message: " \o parsed_content.message

\* submit_feedback with the success test status < 400.
submit_feedback_below_400(status, parsed_content) ==
    IF status < 400 THEN None ELSE FeedbackErrorMsg(status, parsed_content)

\* submit_feedback after the response arrived.
submit_feedback(status, parsed_content) ==
    IF status = 200 THEN None ELSE FeedbackErrorMsg(status, parsed_content)

-----------------------------------------------------------------------------
(* Rendering *)

\* request_id passed to display_message for turn m.
RequestIdOf(m) ==
    IF messages[m].role = "analyst" THEN messages[m].request_id ELSE None

\* display_feedback_section without the test of line 506.
FormShown_always(request_id) == TRUE

\* display_feedback_section shows the form (and not a banner).
FormShown(request_id) == request_id \notin DOMAIN form_submitted

\* The suggestion buttons and feedback forms display_conversation creates,
\* from block k of turn m on, until it ends or raises.
RECURSIVE RenderedFrom(_, _)
RenderedFrom(m, k) ==
    IF m > Len(messages) THEN [buttons |-> {}, forms |-> {}]
    ELSE IF k > Len(messages[m].content) THEN RenderedFrom(m + 1, 1)
    ELSE LET item == messages[m].content[k]
             rest == RenderedFrom(m, k + 1)
         IN  CASE item.type = "suggestions" ->
                    [buttons |-> {<<m - 1, s - 1>> : s \in 1..Len(item.suggestions)}
                                 \cup rest.buttons,
                     forms |-> rest.forms]
               [] item.type = "sql" ->
                    IF "confidence" \notin DOMAIN item
                    THEN [buttons |-> {}, forms |-> {}]
                    ELSE IF Truthy(RequestIdOf(m)) /\ FormShown(RequestIdOf(m))
                         THEN [buttons |-> rest.buttons,
                               forms |-> {RequestIdOf(m)} \cup rest.forms]
                         ELSE rest
               [] OTHER -> rest

\* active_suggestion after the buttons of one suggestions block were evaluated.
RECURSIVE ClickSuggestions(_, _, _, _)
ClickSuggestions(suggestions, message_index, s, act) ==
    IF s > Len(suggestions) THEN act
    ELSE ClickSuggestions(suggestions, message_index, s + 1,
            IF <<message_index, s - 1>> \in run.click THEN suggestions[s] ELSE act)

\* get_query_exec_result called with a memo that has entries for no query.
CacheHit_never(query, memoized) == FALSE

\* @st.cache_data (line 388): the call get_query_exec_result(query) is
\* answered from the memo, without running the function body, when the memo
\* has an entry for this argument.
CacheHit(query, memoized) == query \in memoized

\* The statements for which get_query_exec_result runs its body, given
\* those that ran it earlier in this pass (executed), when it is called
\* with query.
ExecutedAfter(query, executed) ==
    IF CacheHit(query, DOMAIN query_cache \cup executed)
    THEN executed
    ELSE executed \cup {query}

\* display_conversation from block k of turn m on, with act the current
\* active_suggestion and executed the statements executed so far in this
\* pass: it ends ("done"), raises KeyError at an sql block without
\* confidence ("raise"), or reaches a submitted feedback form ("submit").
RECURSIVE DisplayFrom(_, _, _, _)
DisplayFrom(m, k, act, executed) ==
    IF m > Len(messages)
    THEN [outcome |-> "done", active_suggestion |-> act, request_id |-> None,
          executed |-> executed]
    ELSE IF k > Len(messages[m].content) THEN DisplayFrom(m + 1, 1, act, executed)
    ELSE LET item == messages[m].content[k]
         IN  CASE item.type = "suggestions" ->
                    DisplayFrom(m, k + 1,
                        ClickSuggestions(item.suggestions, m - 1, 1, act), executed)
               [] item.type = "sql" ->
                    IF "confidence" \notin DOMAIN item
                    THEN [outcome |-> "raise", active_suggestion |-> act,
                          request_id |-> None, executed |-> executed]
                    ELSE IF /\ Truthy(RequestIdOf(m))
                            /\ FormShown(RequestIdOf(m))
                            /\ RequestIdOf(m) \in run.fb
                         THEN [outcome |-> "submit", active_suggestion |-> act,
                               request_id |-> RequestIdOf(m),
                               executed |-> ExecutedAfter(item.statement, executed)]
                         ELSE DisplayFrom(m, k + 1, act,
                                  ExecutedAfter(item.statement, executed))
               [] OTHER -> DisplayFrom(m, k + 1, act, executed)

-----------------------------------------------------------------------------
(* Initial state: a new session, the first script run is about to start *)

AppInit ==
    /\ messages = <<>>
    /\ active_suggestion = None
    /\ warnings = <<>>
    /\ form_submitted = EmptyMap
    /\ fire_API_error_notify = FALSE
    /\ initialized = FALSE
    /\ pc = "main"
    /\ run = NoTriggers
    /\ prompt = None
    /\ feedback_body = NoBody
    /\ resp = NoResponse
    /\ ui = "none"
    /\ cycles_completed = 0
    /\ cycles_raised = 0
    /\ query_cache = EmptyCache
    /\ sql_calls = [q \in Statements |-> 0]
    /\ request = NoRequest

\* The chart tab is followed on its own, see ChartSpec.
Init == AppInit /\ chart = NoChart

-----------------------------------------------------------------------------
(* Widget events *)

\* The widgets the last run created: the sidebar, the buttons and forms of
\* the conversation, the chat input.
SidebarShown == ui \in {"sidebar", "conversation", "chat"}

ConversationShown == ui \in {"conversation", "chat"}

ChatInputShown == ui = "chat"

Optional(S) == {{}} \cup {{x} : x \in S}

\* The user acts on widgets of the page and a script run starts with these
\* triggers; a change of the selectbox runs its on_change callback first.
\* Only widgets the last run created can be acted on.  More than one widget
\* can be triggered for the same run: Streamlit merges the widget states of
\* rerun requests that arrive before the run starts.
UserEvent ==
    /\ pc = "idle"
    /\ \E mc \in (IF SidebarShown THEN BOOLEAN ELSE {FALSE}),
          cl \in (IF SidebarShown THEN BOOLEAN ELSE {FALSE}),
          click \in Optional(IF ConversationShown THEN RenderedFrom(1, 1).buttons ELSE {}),
          fb \in Optional(IF ConversationShown THEN RenderedFrom(1, 1).forms ELSE {}),
          typed \in Optional(IF ChatInputShown THEN TypedInputs ELSE {}) :
        LET triggers == [model_changed |-> mc, clear |-> cl, click |-> click,
                         fb |-> fb, typed |-> typed]
        IN  /\ triggers # NoTriggers
            /\ run' = triggers
            /\ pc' = IF mc THEN "callback" ELSE "main"
    /\ UNCHANGED <<messages, active_suggestion, warnings, form_submitted,
                   fire_API_error_notify, initialized, prompt, feedback_body,
                   resp, ui, cycles_completed, cycles_raised>>
    /\ UNCHANGED <<query_cache, sql_calls>>
    /\ UNCHANGED chart
    /\ UNCHANGED request

\* on_change = reset_session_state of the selectbox (line 127).
OnChange ==
    /\ pc = "callback"
    /\ messages' = reset_session_state.messages
    /\ active_suggestion' = reset_session_state.active_suggestion
    /\ warnings' = reset_session_state.warnings
    /\ form_submitted' = reset_session_state.form_submitted
    /\ initialized' = TRUE
    /\ cycles_completed' = 0
    /\ cycles_raised' = 0
    /\ run' = [run EXCEPT !.model_changed = FALSE]
    /\ pc' = "main"
    /\ UNCHANGED <<fire_API_error_notify, prompt, feedback_body, resp, ui>>
    /\ UNCHANGED <<query_cache, sql_calls>>
    /\ UNCHANGED chart
    /\ UNCHANGED request

-----------------------------------------------------------------------------
(* main *)

\* A reset happens in lines 85-87: the session is new, or the button
\* 'Clear Chat History' was clicked.
ResetsInMain == ~initialized \/ run.clear

\* main, lines 85-87: initialisation and show_header_and_sidebar.
Main ==
    /\ pc = "main"
    /\ LET st == IF ResetsInMain THEN reset_session_state ELSE session_state
       IN  /\ messages' = st.messages
           /\ active_suggestion' = st.active_suggestion
           /\ warnings' = st.warnings
           /\ form_submitted' = st.form_submitted
    /\ cycles_completed' = IF ResetsInMain THEN 0 ELSE cycles_completed
    /\ cycles_raised' = IF ResetsInMain THEN 0 ELSE cycles_raised
    /\ initialized' = TRUE
    /\ ui' = "sidebar"
    /\ run' = [run EXCEPT !.clear = FALSE]
    /\ pc' = "seed"
    /\ UNCHANGED <<fire_API_error_notify, prompt, feedback_body, resp>>
    /\ UNCHANGED <<query_cache, sql_calls>>
    /\ UNCHANGED chart
    /\ UNCHANGED request

SystemMessage ==
    [role |-> "system", content |-> <<[type |-> "text", text |-> setup_message]>>]

\* The test of line 88 never finding the transcript empty.
TranscriptEmpty_never == FALSE

\* The test of line 88.
TranscriptEmpty == Len(messages) = 0

\* main, lines 88-95: an empty transcript gets the system turn and the
\* automatic first question.
MainSeed ==
    /\ pc = "seed"
    /\ IF TranscriptEmpty
       THEN /\ messages' = Append(messages, SystemMessage)
            /\ prompt' = AutoQuestion
            /\ pc' = "process"
       ELSE /\ pc' = "display"
            /\ UNCHANGED <<messages, prompt>>
    /\ UNCHANGED <<active_suggestion, warnings, form_submitted,
                   fire_API_error_notify, initialized, run, feedback_body,
                   resp, ui, cycles_completed, cycles_raised>>
    /\ UNCHANGED <<query_cache, sql_calls>>
    /\ UNCHANGED chart
    /\ UNCHANGED request

-----------------------------------------------------------------------------
(* process_user_input *)

new_user_message(p) ==
    [role |-> "user", content |-> <<[type |-> "text", text |-> p]>>]

\* Line 170 inserting the user turn at the head of the transcript.
MessagesAfterUser_prepend(p) == <<new_user_message(p)>> \o messages

\* messages after line 170.
MessagesAfterUser(p) == Append(messages, new_user_message(p))

\* process_user_input, lines 163-179: up to the request to the graph-plan
\* endpoint.
ProcessUserInput ==
    /\ pc = "process"
    /\ Len(messages) + 2 <= MaxMessages
    /\ warnings' = <<>>
    /\ messages' = MessagesAfterUser(prompt)
    /\ request' = GraphPlanRequest(messages')
    /\ prompt' = None
    /\ pc' = "call"
    /\ UNCHANGED <<active_suggestion, form_submitted, fire_API_error_notify,
                   initialized, run, feedback_body, resp, ui, cycles_completed,
                   cycles_raised>>
    /\ UNCHANGED <<query_cache, sql_calls>>
    /\ UNCHANGED chart

\* send_snow_api_request returns (lines 257-268): a status and a body.
GraphPlanResponse ==
    /\ pc = "call"
    /\ \E status \in GraphStatuses :
       \E parsed_content \in GraphEnvelopes(status) :
         resp' = [status |-> status, content |-> parsed_content]
    /\ pc' = "merge"
    /\ UNCHANGED <<messages, active_suggestion, warnings, form_submitted,
                   fire_API_error_notify, initialized, run, prompt,
                   feedback_body, ui, cycles_completed, cycles_raised>>
    /\ UNCHANGED <<query_cache, sql_calls>>
    /\ UNCHANGED chart
    /\ UNCHANGED request

\* Line 200 skipped when the call failed.
MessagesAfterAnalyst_skip_error(response1, error_msg1) ==
    IF error_msg1 = None
    THEN Append(messages, analyst_message1(response1, error_msg1))
    ELSE messages

\* messages after line 200.
MessagesAfterAnalyst(response1, error_msg1) ==
    Append(messages, analyst_message1(response1, error_msg1))

\* Lines 195-198 leaving the warnings of the envelope out.
WarningsAfter_drops(response1) == warnings

\* warnings after lines 195-198.
WarningsAfter(response1) ==
    IF "warnings" \in DOMAIN response1
    THEN warnings \o response1.warnings
    ELSE warnings

\* The rest of the cycle raises an exception (KeyError).
CycleRaises ==
    \/ create_relevant_graph_tables(resp.status, resp.content).raised
    \/ AnalystMessageRaises(resp.content,
          create_relevant_graph_tables(resp.status, resp.content).error_msg)

\* create_relevant_graph_tables, lines 268-289, and process_user_input,
\* lines 183-202: the analyst turn is appended and st.rerun() starts a new
\* run, or an exception ends the run.
ProcessUserInputMerge ==
    /\ pc = "merge"
    /\ LET response1 == resp.content
           error_msg1 == create_relevant_graph_tables(resp.status, resp.content).error_msg
       IN  IF CycleRaises
           THEN /\ pc' = "idle"
                /\ cycles_raised' = cycles_raised + 1
                /\ UNCHANGED <<messages, warnings, fire_API_error_notify,
                               cycles_completed>>
           ELSE /\ messages' = MessagesAfterAnalyst(response1, error_msg1)
                /\ fire_API_error_notify' = ErrorNotifyAfter(error_msg1)
                /\ warnings' = WarningsAfter(response1)
                /\ cycles_completed' = cycles_completed + 1
                /\ pc' = "main"
                /\ UNCHANGED cycles_raised
    /\ resp' = NoResponse
    /\ request' = NoRequest
    /\ run' = NoTriggers
    /\ UNCHANGED <<active_suggestion, form_submitted, initialized, prompt,
                   feedback_body, ui>>
    /\ UNCHANGED <<query_cache, sql_calls>>
    /\ UNCHANGED chart

-----------------------------------------------------------------------------
(* display_conversation and the feedback form *)

\* The memo after a pass that executed the statements in executed, with
\* returned[q] what the execution of q returned.
QueryCacheAfter(executed, returned) ==
    [q \in DOMAIN query_cache \cup executed |->
        IF q \in executed THEN returned[q] ELSE query_cache[q]]

SqlCallsAfter(executed) ==
    [q \in Statements |->
        IF q \in executed /\ sql_calls[q] < MaxSqlCalls
        THEN sql_calls[q] + 1
        ELSE sql_calls[q]]

\* display_conversation (lines 344-355) with display_message,
\* display_sql_query and display_feedback_section.
DisplayConversation ==
    /\ pc = "display"
    /\ LET d == DisplayFrom(1, 1, active_suggestion, {})
       IN  /\ active_suggestion' = d.active_suggestion
           /\ \E returned \in [Statements -> QueryOutcomes] :
                query_cache' = QueryCacheAfter(d.executed, returned)
           /\ sql_calls' = SqlCallsAfter(d.executed)
           /\ CASE d.outcome = "done" ->
                    /\ pc' = "inputs"
                    /\ run' = [run EXCEPT !.click = {}, !.fb = {}]
                    /\ UNCHANGED <<feedback_body, request>>
                [] d.outcome = "raise" ->
                    /\ pc' = "idle"
                    /\ run' = NoTriggers
                    /\ UNCHANGED <<feedback_body, request>>
                [] d.outcome = "submit" ->
                    /\ pc' = "feedback_call"
                    /\ run' = NoTriggers
                    /\ \E positive \in BOOLEAN, feedback_message \in FeedbackMessages :
                         /\ feedback_body' = [request_id |-> d.request_id,
                                              positive |-> positive,
                                              feedback_message |-> feedback_message]
                         /\ request' = FeedbackRequest(feedback_body')
    /\ ui' = "conversation"
    /\ UNCHANGED <<messages, warnings, form_submitted, fire_API_error_notify,
                   initialized, prompt, resp, cycles_completed, cycles_raised>>
    /\ UNCHANGED chart

\* form_submitted after line 521.
RecordFeedback(request_id, err_msg) ==
    [r \in DOMAIN form_submitted \cup {request_id} |->
        IF r = request_id THEN [error |-> err_msg] ELSE form_submitted[r]]

\* send_snow_api_request returns in submit_feedback (lines 541-549).
FeedbackResponse ==
    /\ pc = "feedback_call"
    /\ \E status \in FeedbackStatuses :
       \E parsed_content \in FeedbackEnvelopes(feedback_body.request_id) :
         resp' = [status |-> status, content |-> parsed_content]
    /\ pc' = "feedback_merge"
    /\ UNCHANGED <<messages, active_suggestion, warnings, form_submitted,
                   fire_API_error_notify, initialized, run, prompt,
                   feedback_body, ui, cycles_completed, cycles_raised>>
    /\ UNCHANGED <<query_cache, sql_calls>>
    /\ UNCHANGED chart
    /\ UNCHANGED request

\* submit_feedback, lines 550-567, and display_feedback_section, lines
\* 520-523: the outcome is recorded and st.rerun() starts a new run.
SubmitFeedbackReturn ==
    /\ pc = "feedback_merge"
    /\ form_submitted' = RecordFeedback(feedback_body.request_id,
                                        submit_feedback(resp.status, resp.content))
    /\ feedback_body' = NoBody
    /\ request' = NoRequest
    /\ resp' = NoResponse
    /\ run' = NoTriggers
    /\ pc' = "main"
    /\ UNCHANGED <<messages, active_suggestion, warnings, fire_API_error_notify,
                   initialized, prompt, ui, cycles_completed, cycles_raised>>
    /\ UNCHANGED <<query_cache, sql_calls>>
    /\ UNCHANGED chart

-----------------------------------------------------------------------------
(* handle_user_inputs, handle_error_notifications, display_warnings *)

\* handle_user_inputs without the assignment of line 145.
handle_user_inputs_keeps_suggestion(user_input, suggestion) ==
    IF user_input # {}
    THEN [prompt |-> CHOOSE t \in user_input : TRUE, active_suggestion |-> suggestion]
    ELSE [prompt |-> suggestion, active_suggestion |-> suggestion]

\* handle_user_inputs with user_input the set holding the value of
\* st.chat_input (empty: None): the prompt of the cycle it starts (None: no
\* cycle) and the active_suggestion it leaves.
handle_user_inputs(user_input, suggestion) ==
    IF user_input # {}
    THEN [prompt |-> CHOOSE t \in user_input : TRUE, active_suggestion |-> suggestion]
    ELSE IF suggestion # None
         THEN [prompt |-> suggestion, active_suggestion |-> None]
         ELSE [prompt |-> None, active_suggestion |-> suggestion]

HandleUserInputs ==
    /\ pc = "inputs"
    /\ LET h == handle_user_inputs(run.typed, active_suggestion)
       IN  /\ prompt' = h.prompt
           /\ active_suggestion' = h.active_suggestion
           /\ pc' = IF h.prompt # None THEN "process" ELSE "notify"
    /\ run' = [run EXCEPT !.typed = {}]
    /\ ui' = "chat"
    /\ UNCHANGED <<messages, warnings, form_submitted, fire_API_error_notify,
                   initialized, feedback_body, resp, cycles_completed,
                   cycles_raised>>
    /\ UNCHANGED <<query_cache, sql_calls>>
    /\ UNCHANGED chart
    /\ UNCHANGED request

HandleErrorNotifications ==
    /\ pc = "notify"
    /\ fire_API_error_notify' = FALSE
    /\ pc' = "warnings"
    /\ UNCHANGED <<messages, active_suggestion, warnings, form_submitted,
                   initialized, run, prompt, feedback_body, resp, ui,
                   cycles_completed, cycles_raised>>
    /\ UNCHANGED <<query_cache, sql_calls>>
    /\ UNCHANGED chart
    /\ UNCHANGED request

DisplayWarnings ==
    /\ pc = "warnings"
    /\ pc' = "idle"
    /\ run' = NoTriggers
    /\ UNCHANGED <<messages, active_suggestion, warnings, form_submitted,
                   fire_API_error_notify, initialized, prompt, feedback_body,
                   resp, ui, cycles_completed, cycles_raised>>
    /\ UNCHANGED <<query_cache, sql_calls>>
    /\ UNCHANGED chart
    /\ UNCHANGED request

-----------------------------------------------------------------------------

Next ==
    \/ UserEvent
    \/ OnChange
    \/ Main
    \/ MainSeed
    \/ ProcessUserInput
    \/ GraphPlanResponse
    \/ ProcessUserInputMerge
    \/ DisplayConversation
    \/ FeedbackResponse
    \/ SubmitFeedbackReturn
    \/ HandleUserInputs
    \/ HandleErrorNotifications
    \/ DisplayWarnings

Spec == Init /\ [][Next]_vars

-----------------------------------------------------------------------------
(* display_charts_tab *)

\* The values st.selectbox can return for the given options when the
\* session holds the value widget under its key: that value when it is
\* among the options, else the first option (the options are a Python set:
\* any of them can be first), None without options.
selectbox(options, widget) ==
    IF widget \in options THEN {widget}
    ELSE IF options = {} THEN {None}
    ELSE options

\* The options of the Y selectbox being all columns.
YOptions_all(all_cols_set, x_col) == all_cols_set

\* The options of the Y selectbox (line 487).
YOptions(all_cols_set, x_col) == all_cols_set \ {x_col}

\* display_charts_tab(df, message_index) for a result with the columns
\* chart.columns, with the widget values of the session.
DisplayChartsTab ==
    /\ chart.state = "run"
    /\ IF Len(chart.columns) >= 2
       THEN LET all_cols_set == {chart.columns[i] : i \in 1..Len(chart.columns)}
            IN  \E x_col \in selectbox(all_cols_set, chart.x_widget) :
                \E y_col \in selectbox(YOptions(all_cols_set, x_col), chart.y_widget) :
                    chart' = [columns |-> chart.columns, state |-> "idle",
                              offered |-> TRUE,
                              x_widget |-> x_col, y_widget |-> y_col,
                              x_options |-> all_cols_set,
                              y_options |-> YOptions(all_cols_set, x_col),
                              x_col |-> x_col, y_col |-> y_col]
       ELSE chart' = [chart EXCEPT !.state = "idle", !.offered = FALSE]
    /\ UNCHANGED app_vars

\* The user selects another column in the selectbox 'X axis'.
ChartSelectX ==
    /\ chart.state = "idle"
    /\ chart.offered
    /\ \E c \in chart.x_options \ {chart.x_widget} :
         chart' = [chart EXCEPT !.x_widget = c, !.state = "run"]
    /\ UNCHANGED app_vars

\* The user selects another column in the selectbox 'Y axis'.
ChartSelectY ==
    /\ chart.state = "idle"
    /\ chart.offered
    /\ \E c \in chart.y_options \ {chart.y_widget} :
         chart' = [chart EXCEPT !.y_widget = c, !.state = "run"]
    /\ UNCHANGED app_vars

\* Another script run renders the same result again.
ChartRerun ==
    /\ chart.state = "idle"
    /\ chart' = [chart EXCEPT !.state = "run"]
    /\ UNCHANGED app_vars

\* A result with any list of columns is about to be rendered for the first
\* time.
ChartInit ==
    /\ AppInit
    /\ chart \in {[NoChart EXCEPT !.columns = c, !.state = "run"] : c \in ColumnLists}

ChartNext ==
    \/ DisplayChartsTab
    \/ ChartSelectX
    \/ ChartSelectY
    \/ ChartRerun

ChartSpec == ChartInit /\ [][ChartNext]_vars

-----------------------------------------------------------------------------
(* Properties *)

IsPrefix(a, b) ==
    /\ Len(a) <= Len(b)
    /\ \A i \in 1..Len(a) : a[i] = b[i]

\* The step about to be taken runs reset_session_state: the on_change
\* callback of the selectbox, or lines 85-87 with a new session or a click
\* on 'Clear Chat History'.
ResetStep == pc = "callback" \/ (pc = "main" /\ ResetsInMain)

\* The response that arrived is a failure with a complete error envelope.
FailureResponse ==
    /\ resp.status >= 400
    /\ {"request_id", "error_code", "message"} \subseteq DOMAIN resp.content

\* The response that arrived is a success with message content and request_id.
SuccessResponse ==
    /\ resp.status < 400
    /\ {"message", "request_id"} \subseteq DOMAIN resp.content

\* C1: a cycle whose graph-plan call failed (status >= 400, envelope with
\* request_id, error_code and message) appends an analyst turn whose content
\* is one text block holding the client's error string, which contains the
\* status, the request_id, the error_code and the message; the turn's
\* request_id is the envelope's, and the error-notification flag is set.
C1_FailedCallAppendsErrorTurn ==
    [][(pc = "merge" /\ FailureResponse) =>
        LET err == create_relevant_graph_tables(resp.status, resp.content).error_msg
        IN  /\ err # None
            /\ Contains(err, ToString(resp.status))
            /\ Contains(err, resp.content.request_id)
            /\ Contains(err, resp.content.error_code)
            /\ Contains(err, resp.content.message)
            /\ messages' = Append(messages,
                    [role |-> "analyst",
                     content |-> <<[type |-> "text", text |-> err]>>,
                     request_id |-> resp.content.request_id])
            /\ fire_API_error_notify' = TRUE]_vars

C1_Witness ==
    /\ pc = "main"
    /\ messages # <<>>
    /\ Last(messages).role = "analyst"
    /\ Last(messages).request_id = "r1"
    /\ Len(Last(messages).content) = 1
    /\ Last(messages).content[1].type = "text"
    /\ Contains(Last(messages).content[1].text, "response code: 500")
    /\ fire_API_error_notify

C3_TranscriptLength ==
    (cycles_raised = 0 /\ messages # <<>> /\ pc \notin {"call", "merge"}) =>
        /\ Len(messages) = 1 + 2 * cycles_completed
        /\ messages[1].role = "system"
        /\ \A i \in 1..cycles_completed :
            /\ messages[2 * i].role = "user"
            /\ messages[2 * i + 1].role = "analyst"

C3_Witness ==
    /\ pc = "idle"
    /\ cycles_raised = 0
    /\ cycles_completed = 2
    /\ Len(messages) = 5

\* C4: in every step that is not a reset the transcript before the step is a
\* prefix of the transcript after it: no turn is deleted, modified or moved,
\* so the index in a turn's widget keys never changes.
C4_TranscriptAppendOnly ==
    [][~ResetStep => IsPrefix(messages, messages')]_vars

C4_Witness ==
    /\ pc = "idle"
    /\ Len(messages) = 5
    /\ cycles_completed = 2

\* C5: reset_session_state leaves an empty turn sequence, an empty warning
\* list, an empty feedback-record map and no active suggestion, whatever the
\* state before.
C5_ResetClearsSession ==
    [][ResetStep =>
        /\ messages' = <<>>
        /\ warnings' = <<>>
        /\ DOMAIN form_submitted' = {}
        /\ active_suggestion' = None]_vars

\* The on_change callback has just reset a session that had built its page.
C5_Witness ==
    /\ pc = "main"
    /\ ui = "chat"
    /\ messages = <<>>
    /\ warnings = <<>>
    /\ DOMAIN form_submitted = {}
    /\ active_suggestion = None

\* C6: whatever the graph-plan endpoint answers, the cycle appends exactly
\* one analyst turn and reaches st.rerun(); the turn has no request_id when
\* the envelope supplied none.
C6_NoResponseRaises ==
    [][pc = "merge" =>
        /\ pc' = "main"
        /\ messages' # messages
        /\ IsPrefix(messages, messages')
        /\ Len(messages') = Len(messages) + 1
        /\ Last(messages').role = "analyst"
        /\ ("request_id" \notin DOMAIN resp.content =>
                "request_id" \notin DOMAIN Last(messages'))]_vars

\* C7: between resets a feedback record, once present, is never changed or
\* removed, no render pass creates a form for its request_id, and no
\* feedback request is sent for it.
C7_FeedbackOneShot ==
    [][/\ ~ResetStep =>
            \A r \in DOMAIN form_submitted :
                /\ r \in DOMAIN form_submitted'
                /\ form_submitted'[r] = form_submitted[r]
       /\ pc = "display" =>
            RenderedFrom(1, 1).forms \cap DOMAIN form_submitted = {}
       /\ pc' \in {"feedback_call", "feedback_merge"} =>
            feedback_body'.request_id \notin DOMAIN form_submitted']_vars

\* A later render pass has run with a record of an accepted and a record of
\* a refused submission.
C7_Witness ==
    /\ pc = "inputs"
    /\ DOMAIN form_submitted = {"r1", "r2"}
    /\ form_submitted["r1"].error = None
    /\ form_submitted["r2"].error # None

\* C8: the record stored by a feedback submission has error = None exactly
\* when the endpoint answered 200; for every other status it holds the
\* error string built from status, request_id, error_code and message, and
\* the submission reaches st.rerun().
C8_FeedbackAcceptedOnlyOn200 ==
    [][pc = "feedback_merge" =>
        LET r == feedback_body.request_id
        IN  /\ r \in DOMAIN form_submitted'
            /\ (form_submitted'[r].error = None) <=> (resp.status = 200)
            /\ resp.status # 200 =>
                /\ form_submitted'[r].error = FeedbackErrorMsg(resp.status, resp.content)
                /\ Contains(form_submitted'[r].error, ToString(resp.status))
                /\ Contains(form_submitted'[r].error, resp.content.request_id)
                /\ Contains(form_submitted'[r].error, resp.content.error_code)
                /\ Contains(form_submitted'[r].error, resp.content.message)
            /\ pc' = "main"]_vars

\* A submission answered 201 was recorded as an error.
C8_Witness ==
    /\ pc = "main"
    /\ "r1" \in DOMAIN form_submitted
    /\ form_submitted["r1"].error # None
    /\ Contains(form_submitted["r1"].error, "response code: 201")

\* C9: while the last turn of the transcript is a user turn that has no
\* analyst turn yet, no other user turn is appended.
C9_SingleFlight ==
    [][(messages # <<>> /\ Last(messages).role = "user") =>
        ~(Len(messages') = Len(messages) + 1 /\ Last(messages').role = "user")]_vars

\* The text of the suggestion button whose click is a trigger of this run.
ClickedSuggestion ==
    LET c == CHOOSE c \in run.click : TRUE
        content == messages[c[1] + 1].content
        k == CHOOSE k \in 1..Len(content) : content[k].type = "suggestions"
    IN  content[k].suggestions[c[2] + 1]

EnvelopeWarnings ==
    IF "warnings" \in DOMAIN resp.content THEN resp.content.warnings ELSE <<>>

\* C11: the warning list is per cycle: the step that starts a
\* process_user_input cycle empties it, it stays empty while the call is in
\* flight, and a cycle that reaches its end leaves it equal to exactly the
\* warnings of the envelope of its own call, in order (empty when the
\* envelope has no warnings field), so that no warning of an earlier cycle
\* remains.
C11_WarningsPerCycle ==
    [][/\ (pc = "process" /\ pc' = "call") => warnings' = <<>>
       /\ pc \in {"call", "merge"} => warnings = <<>>
       /\ (pc = "merge" /\ pc' = "main") => warnings' = EnvelopeWarnings]_vars

\* A second cycle after the reset ended with the warning its own call
\* returned.
C11_Witness ==
    /\ pc = "main"
    /\ cycles_completed = 2
    /\ warnings = <<[message |-> "a"]>>
    /\ Last(messages).role = "analyst"

\* The positions of a render pass before handle_error_notifications ran:
\* the flag a cycle has set may be up here, and nowhere else.
BeforeNotification == pc \in {"main", "seed", "display", "inputs", "notify"}

\* C12: the flag set by a failed cycle is consumed (toast, flag cleared) by
\* the render pass that follows that cycle: the flag is never up when a run
\* has ended or when a further cycle starts, so that every failed cycle
\* gets its own toast.
C12_FlagClearedByNextPass ==
    fire_API_error_notify => BeforeNotification

\* C13: absent optional fields fail neither a render nor a cycle: a
\* display_conversation pass always gets through the whole transcript (it
\* ends, or it stops for a submitted feedback form), also when an sql block
\* has no confidence field, and a cycle whose success envelope has message
\* and request_id but no warnings field reaches its end with an empty
\* warning list.
C13_AbsentOptionalFieldsTolerated ==
    [][/\ pc = "display" => pc' \in {"inputs", "feedback_call"}
       /\ (pc = "merge" /\ SuccessResponse /\ "warnings" \notin DOMAIN resp.content)
            => (pc' = "main" /\ warnings' = <<>>)]_vars

\* The analyst turns with an sql block (with confidence) for statement q.
TurnsWithStatement(q) ==
    {m \in 1..Len(messages) :
        \E k \in 1..Len(messages[m].content) :
            /\ messages[m].content[k].type = "sql"
            /\ "confidence" \in DOMAIN messages[m].content[k]
            /\ messages[m].content[k].statement = q}

\* C14: SQL execution is memoized by the statement text: over all render
\* passes session.sql is invoked at most once per statement, also when the
\* first execution failed with a SnowparkSQLException, and what
\* get_query_exec_result returned for a statement the first time is what
\* every later render gets.
C14_SqlMemoized ==
    [][\A q \in Statements :
        /\ sql_calls'[q] <= 1
        /\ q \in DOMAIN query_cache =>
             (q \in DOMAIN query_cache' /\ query_cache'[q] = query_cache[q])]_vars

\* Two turns with the same statement were rendered, in more than one pass,
\* after its only execution failed.
C14_Witness ==
    /\ pc = "inputs"
    /\ Cardinality(TurnsWithStatement("SELECT 1")) = 2
    /\ sql_calls["SELECT 1"] = 1
    /\ "SELECT 1" \in DOMAIN query_cache
    /\ query_cache["SELECT 1"].df = None

\* C15: when the chart tab of a result with at least 2 columns is rendered,
\* selections are offered, the options of the Y selectbox do not contain
\* the column selected as X, and the selected Y column differs from the
\* selected X column; for a result with fewer than 2 columns no selection
\* is offered.
C15_YAxisExcludesX ==
    chart.state = "idle" =>
        IF Len(chart.columns) >= 2
        THEN /\ chart.offered
             /\ chart.x_col \in chart.x_options
             /\ chart.x_col \notin chart.y_options
             /\ chart.y_col \in chart.y_options \cup {None}
             /\ chart.y_col # chart.x_col
        ELSE ~chart.offered

\* The chart tab of a three-column result was rendered with b selected as
\* X and c as Y: the Y selectbox offers a and c.
C15_Witness ==
    /\ chart.state = "idle"
    /\ chart.columns = <<"a", "b", "c">>
    /\ chart.x_col = "b"
    /\ chart.x_widget = "b"
    /\ chart.y_col = "c"
    /\ chart.y_options = {"a", "c"}

\* C16: the step that starts a cycle appends the user turn of the input to
\* the transcript and then sends the request, whose messages are the whole
\* transcript of that moment: the system turn first, every turn in its
\* place, the user turn just appended last (so no analyst turn for the
\* current input); while the call is in flight the request still carries
\* exactly the transcript.
C16_RequestIsTranscriptWithUserTurn ==
    [][/\ pc = "process" =>
            /\ pc' = "call"
            /\ messages' = Append(messages, new_user_message(prompt))
            /\ request'.body.messages = messages'
            /\ request'.body.messages[1] = SystemMessage
            /\ Last(request'.body.messages) = new_user_message(prompt)
       /\ pc = "call" => request.body.messages = messages]_vars

\* The request of the cycle after the automatic one is in flight: it
\* carries the system turn, the automatic exchange and the new user turn.
C16_Witness ==
    /\ pc = "call"
    /\ Len(request.body.messages) = 4
    /\ request.body.messages[1] = SystemMessage
    /\ request.body.messages[2] = new_user_message(AutoQuestion)
    /\ request.body.messages[3].role = "analyst"
    /\ request.body.messages[4] = new_user_message("q1")

\* The texts of the user turns of the transcript.
UserTexts ==
    {messages[m].content[1].text :
        m \in {i \in 1..Len(messages) : messages[i].role = "user"}}

\* The texts the user or the seed can feed into a cycle: the automatic
\* question, typed inputs and the suggestions offered by analyst turns.
InputTexts ==
    {AutoQuestion} \cup TypedInputs
    \cup {c[k].suggestions[s] :
            <<c, k, s>> \in {<<c, k, s>> \in Contents \X (1..2) \X (1..2) :
                                /\ k <= Len(c)
                                /\ c[k].type = "suggestions"
                                /\ s <= Len(c[k].suggestions)}}

CycleInFlight == pc \in {"process", "call", "merge"}

\* C18: whenever no cycle is in flight the transcript is empty, or it is
\* the system turn followed by one or more pairs of a user turn and an
\* analyst turn.
C18_TranscriptAlternates ==
    ~CycleInFlight =>
        \/ messages = <<>>
        \/ /\ Len(messages) >= 3
           /\ Len(messages) % 2 = 1
           /\ messages[1].role = "system"
           /\ \A i \in 2..Len(messages) :
                messages[i].role = IF i % 2 = 0 THEN "user" ELSE "analyst"

\* C19: the conversation is never rendered empty: whenever
\* display_conversation is about to run, the first turn is the system turn
\* with the setup message, the second the user turn of the automatic
\* question and the third an analyst turn; and a run that finds the
\* transcript empty after show_header_and_sidebar (a new session or a
\* reset) appends the system turn and starts the automatic cycle instead
\* of displaying.
C19_ConversationNeverRenderedEmpty ==
    [][/\ pc = "display" =>
            /\ Len(messages) >= 3
            /\ messages[1] = SystemMessage
            /\ messages[1].content[1].text = setup_message
            /\ messages[2] = new_user_message(AutoQuestion)
            /\ messages[3].role = "analyst"
       /\ (pc = "seed" /\ messages = <<>>) =>
            /\ pc' = "process"
            /\ messages' = <<SystemMessage>>
            /\ prompt' = AutoQuestion]_vars

\* The conversation is displayed after a reset (a statement was executed
\* for a turn that is gone): the transcript was seeded again and the
\* automatic cycle has completed.
C19_Witness ==
    /\ pc = "display"
    /\ Len(messages) = 3
    /\ cycles_completed = 1
    /\ sql_calls["SELECT 1"] = 1
    /\ TurnsWithStatement("SELECT 1") = {}

\* The request_ids of the analyst turns of the transcript.
TranscriptRequestIds ==
    {messages[m].request_id :
        m \in {i \in 1..Len(messages) : messages[i].role = "analyst"}}

\* C20: every key of form_submitted is the request_id of an analyst turn of
\* the current transcript.
C20_FeedbackRecordsHaveTurns ==
    DOMAIN form_submitted \subseteq TranscriptRequestIds

\* The feedback for the analyst turn with request_id r2 was submitted and
\* recorded, and the run that follows is about to start.
C20_Witness ==
    /\ pc = "main"
    /\ DOMAIN form_submitted = {"r2"}
    /\ Len(messages) = 3
    /\ messages[3].request_id = "r2"
    /\ "SELECT 1" \in DOMAIN query_cache
    /\ cycles_raised = 0

====
